---- MODULE Spec2Model ----
EXTENDS Integers, Sequences, FiniteSets, TLC

\* Model of gro/core.py (Block, Wrapper) driven as examples/todo.py drives it.
\* The widget framework (gradio) is the environment: a widget constructor that
\* returns a fresh object, event triggers that return a handle with a .then
\* continuation, Blocks.load and Blocks.launch.  Every call made to it by a
\* start() is recorded, in order, in `trace`.

VARIABLES
    listeners,                \* Wrapper.listeners : dict event -> list of kwargs dicts
    source,                   \* Wrapper._source
    gr_object,                \* Wrapper.gr_object (0: the attribute is not set)
    nextWidget,               \* identity of the next object gr_object_cls(...) returns
    assigned,                 \* per Wrapper, how often line 117 has assigned gr_object
    declared,                 \* history of binder calls, in call order
    pc,                       \* position of the (single) thread inside Block.start
    self,                     \* the Block whose start() ran last / is running
    wrapped_instances,        \* Block.wrapped_instances
    dyn_reloading_instances,  \* Block.dyn_reloading_instances
    trace,                    \* framework calls made by the current start(), in order
    err,                      \* the exception start() raised, if any
    calledInLayout,           \* Wrappers called by the current start()'s layout()
    layoutBase,               \* nextWidget when the current start() entered layout()
    loaded,                   \* what the framework got from the on-load handler
    starts                    \* number of start() calls so far

vars == <<listeners, source, gr_object, nextWidget, assigned, declared, pc, self,
          wrapped_instances, dyn_reloading_instances, trace, err, calledInLayout,
          layoutBase, loaded, starts>>

\* ---------------------------------------------------------------- bounds
MaxBinds == 2
MaxWidgets == 2
MaxStarts == 2

\* ---------------------------------------------------------------- program text
\* The Wrapper objects of the application: 1 wraps a Button, 2 a Markdown.
Wrappers == {1, 2}

\* gr_object_cls.EVENTS of each Wrapper's widget class
EVENTS(w) == IF w = 1 THEN {"click", "change"} ELSE {"change"}

WRef(w) == [kind |-> "wrapper", id |-> w]
GRef(g) == [kind |-> "widget", id |-> g]
NoRef == [kind |-> "none", id |-> 0]
Other == [kind |-> "other", id |-> 0]

\* Three Block classes sharing the class-level Wrappers by inheritance:
\*   base  declares the Wrappers and does not override layout();
\*   hello extends base and overrides layout();
\*   alias extends hello and adds a second attribute bound to Wrapper 1.
Blocks == {"base", "hello", "alias"}

\* dir(self) with getattr: the attributes in sorted name order
Attrs(b) ==
    IF b = "alias"
    THEN << [name |-> "add_button", value |-> WRef(1)],
            [name |-> "again_button", value |-> WRef(1)],
            [name |-> "init_args", value |-> Other],
            [name |-> "tasks_markdown", value |-> WRef(2)] >>
    ELSE << [name |-> "add_button", value |-> WRef(1)],
            [name |-> "init_args", value |-> Other],
            [name |-> "tasks_markdown", value |-> WRef(2)] >>

OverridesLayout(b) == b # "base"

\* keyword arguments the application passes to a binder
Kwargs(fn, hasIn, ins, hasOut, outs, opt) ==
    [fn |-> fn, hasInputs |-> hasIn, inputs |-> ins,
     hasOutputs |-> hasOut, outputs |-> outs, show_progress |-> opt]

\* the binder calls the application may make: (Wrapper, event name, kwargs)
BindChoices ==
    { [w |-> 1, event |-> "click",
       kwargs |-> Kwargs("f1", TRUE, <<WRef(2)>>, TRUE, <<WRef(2), WRef(1)>>, "full")],
      [w |-> 1, event |-> "click",
       kwargs |-> Kwargs("f3", TRUE, <<>>, FALSE, <<>>, "hidden")],
      [w |-> 1, event |-> "change",
       kwargs |-> Kwargs("f3", TRUE, <<>>, FALSE, <<>>, "hidden")],
      [w |-> 2, event |-> "change",
       kwargs |-> Kwargs("f2", FALSE, <<>>, TRUE, <<WRef(1)>>, "full")] }

\* the data-source function the application may give each Wrapper, and what
\* each function returns when called
SourceFn(w) == IF w = 1 THEN "g1" ELSE "g2"
CallSource(fn) == IF fn = "g1" THEN "x" ELSE "y"

\* ---------------------------------------------------------------- Wrapper
\* mutant: self.listeners[name] = [kwargs], the earlier records are lost
SetDefaultAppend_overwrite(d, name, kwargs) ==
    IF \E i \in 1..Len(d) : d[i].event = name
    THEN [i \in 1..Len(d) |->
            IF d[i].event = name THEN [d[i] EXCEPT !.specs = <<kwargs>>] ELSE d[i]]
    ELSE Append(d, [event |-> name, specs |-> <<kwargs>>])

\* self.listeners.setdefault(name, []).append(kwargs); the dict keeps insertion order
SetDefaultAppend(d, name, kwargs) ==
    IF \E i \in 1..Len(d) : d[i].event = name
    THEN [i \in 1..Len(d) |->
            IF d[i].event = name THEN [d[i] EXCEPT !.specs = Append(@, kwargs)] ELSE d[i]]
    ELSE Append(d, [event |-> name, specs |-> <<kwargs>>])

\* the list stored under event e of a listeners dict (empty when the key is absent)
ListOf(d, e) ==
    IF \E i \in 1..Len(d) : d[i].event = e
    THEN d[CHOOSE i \in 1..Len(d) : d[i].event = e].specs
    ELSE <<>>

\* Wrapper.__getattr__(name) followed by a call of the returned binder
Bind(w, name, kwargs) ==
    /\ pc = "idle"
    /\ starts = 0
    /\ Len(declared) < MaxBinds
    /\ name \in EVENTS(w)
    /\ listeners' = [listeners EXCEPT ![w] = SetDefaultAppend(@, name, kwargs)]
    /\ declared' = Append(declared, [w |-> w, event |-> name, kwargs |-> kwargs])
    /\ UNCHANGED <<source, gr_object, nextWidget, assigned, pc, self, wrapped_instances,
                   dyn_reloading_instances, trace, err, calledInLayout, layoutBase,
                   loaded, starts>>

\* Wrapper.source(fn)
Source(w, fn) ==
    /\ pc = "idle"
    /\ starts = 0
    /\ source[w] # fn
    /\ source' = [source EXCEPT ![w] = fn]
    /\ UNCHANGED <<listeners, gr_object, nextWidget, assigned, declared, pc, self,
                   wrapped_instances, dyn_reloading_instances, trace, err,
                   calledInLayout, layoutBase, loaded, starts>>

\* mutant: the widget is created on the first call only
CallEffect_once(w) ==
    /\ nextWidget <= MaxWidgets
    /\ gr_object' = IF gr_object[w] = 0 THEN [gr_object EXCEPT ![w] = nextWidget]
                    ELSE gr_object
    /\ nextWidget' = nextWidget + 1
    /\ assigned' = [assigned EXCEPT ![w] = @ + 1]

\* Wrapper.__call__: self.gr_object = self.gr_object_cls(**self.init_kwargs)
CallEffect(w) ==
    /\ nextWidget <= MaxWidgets
    /\ gr_object' = [gr_object EXCEPT ![w] = nextWidget]
    /\ nextWidget' = nextWidget + 1
    /\ assigned' = [assigned EXCEPT ![w] = @ + 1]

\* a Wrapper called by application code outside any start()
WrapperCall(w) ==
    /\ pc = "idle"
    /\ CallEffect(w)
    /\ layoutBase' = nextWidget'
    /\ UNCHANGED <<listeners, source, declared, pc, self, wrapped_instances,
                   dyn_reloading_instances, trace, err, calledInLayout, loaded, starts>>

\* ---------------------------------------------------------------- Block.start
NoErr == [type |-> "none", at |-> "none", obj |-> NoRef]
AttributeError(at, ref) == [type |-> "AttributeError", at |-> at, obj |-> ref]
NotImplementedError == [type |-> "NotImplementedError", at |-> "layout", obj |-> NoRef]

NotLoaded == [fired |-> FALSE, calls |-> <<>>, shape |-> "none", vals |-> <<>>]

\* lines 23-27: the Wrapper-valued attributes, in dir() order
Discover(b) ==
    LET wr == SelectSeq(Attrs(b), LAMBDA a : a.value.kind = "wrapper")
    IN  [i \in 1..Len(wr) |-> wr[i].value.id]

\* line 29: [o for o in self.wrapped_instances if o._source]
SourcePartition(insts) == SelectSeq(insts, LAMBDA w : source[w] # "None")

\* lines 23-31: discovery, source partition, entering gr.Blocks
StartBegin(b) ==
    /\ pc = "idle"
    /\ starts < MaxStarts
    /\ starts' = starts + 1
    /\ self' = b
    /\ wrapped_instances' = [wrapped_instances EXCEPT ![b] = Discover(b)]
    /\ dyn_reloading_instances' =
          [dyn_reloading_instances EXCEPT ![b] = SourcePartition(Discover(b))]
    /\ trace' = <<>>
    /\ err' = NoErr
    /\ calledInLayout' = {}
    /\ layoutBase' = nextWidget
    /\ loaded' = NotLoaded
    /\ pc' = "layout"
    /\ UNCHANGED <<listeners, source, gr_object, nextWidget, assigned, declared>>

\* the subclass's layout() calling one of the Wrappers
LayoutCall(w) ==
    /\ pc = "layout"
    /\ OverridesLayout(self)
    /\ CallEffect(w)
    /\ calledInLayout' = calledInLayout \cup {w}
    /\ UNCHANGED <<listeners, source, declared, pc, self, wrapped_instances,
                   dyn_reloading_instances, trace, err, layoutBase, loaded, starts>>

\* the subclass's layout() returning
LayoutReturn ==
    /\ pc = "layout"
    /\ OverridesLayout(self)
    /\ pc' = "wire"
    /\ UNCHANGED <<listeners, source, gr_object, nextWidget, assigned, declared, self,
                   wrapped_instances, dyn_reloading_instances, trace, err,
                   calledInLayout, layoutBase, loaded, starts>>

\* mutant: Block.layout is an empty method
LayoutRaise_pass ==
    /\ pc = "layout"
    /\ ~OverridesLayout(self)
    /\ pc' = "wire"
    /\ UNCHANGED <<listeners, source, gr_object, nextWidget, assigned, declared, self,
                   wrapped_instances, dyn_reloading_instances, trace, err,
                   calledInLayout, layoutBase, loaded, starts>>

\* Block.layout, not overridden: raise NotImplementedError
LayoutRaise ==
    /\ pc = "layout"
    /\ ~OverridesLayout(self)
    /\ err' = NotImplementedError
    /\ pc' = "failed"
    /\ UNCHANGED <<listeners, source, gr_object, nextWidget, assigned, declared, self,
                   wrapped_instances, dyn_reloading_instances, trace, calledInLayout,
                   layoutBase, loaded, starts>>

\* ---------------------------------------------------------------- wiring
\* mutant: Wrapper.__init__ sets gr_object = None, so reading it never raises
HasGrObject_none(ref) == ref.kind = "wrapper"

\* x.gr_object succeeds only on a Wrapper that has been called: Wrapper.__init__
\* does not set the attribute, Wrapper.__getattr__ raises for it, and a framework
\* widget has no such attribute
HasGrObject(ref) == ref.kind = "wrapper" /\ gr_object[ref.id] # 0

\* [r.gr_object for r in refs]: index of the first element that raises, 0 if none
FirstBad(refs) ==
    LET bad == {i \in 1..Len(refs) : ~HasGrObject(refs[i])}
    IN  IF bad = {} THEN 0 ELSE CHOOSE i \in bad : \A j \in bad : i <= j

\* mutant: the resolved widgets come out in reverse order
Resolve_reversed(refs) ==
    [i \in 1..Len(refs) |-> GRef(gr_object[refs[Len(refs) + 1 - i].id])]

\* [r.gr_object for r in refs] when no element raises
Resolve(refs) == [i \in 1..Len(refs) |-> GRef(gr_object[refs[i].id])]

\* getattr(widget, event): the widget's own trigger for the event
RawTrigger(g, event) == [via |-> "raw", widget |-> g, event |-> event, after |-> 0]

\* l.then of the handle returned by the h-th framework call
ThenTrigger(h) == [via |-> "then", widget |-> 0, event |-> "", after |-> h]

NoTrigger == [via |-> "none", widget |-> 0, event |-> "", after |-> 0]
NoKwargs == Kwargs("", FALSE, <<>>, FALSE, <<>>, "")

\* mutant: event_fn is not reset, the chain runs on into the next event
FirstTrigger_carry(g, event, prev) ==
    IF prev.via = "then" THEN prev ELSE RawTrigger(g, event)

\* line 60: event_fn = getattr(inst.gr_object, event); prev is the value the
\* loop variable event_fn still holds from the previous iteration
FirstTrigger(g, event, prev) == RawTrigger(g, event)

\* one framework call: event_fn(**listener), made for spec k of (w, event)
ListenerCall(event_fn, listener, w, event, k) ==
    [kind |-> "listener", on |-> event_fn, kwargs |-> listener, outputs |-> <<>>,
     w |-> w, event |-> event, k |-> k]

LoadCall(outs) ==
    [kind |-> "load", on |-> NoTrigger, kwargs |-> NoKwargs, outputs |-> outs,
     w |-> 0, event |-> "", k |-> 0]

LaunchCall ==
    [kind |-> "launch", on |-> NoTrigger, kwargs |-> NoKwargs, outputs |-> <<>>,
     w |-> 0, event |-> "", k |-> 0]

\* lines 61-69: the listeners of entry ei of inst.listeners, from spec k on.
\* st = [ls: all Wrappers' listeners, tr: the trace, err, fn: event_fn]
RECURSIVE WireListeners(_, _, _, _)
WireListeners(st, w, ei, k) ==
    IF k > Len(st.ls[w][ei].specs) THEN st
    ELSE
      LET listener == st.ls[w][ei].specs[k]
          badIn  == IF listener.hasInputs THEN FirstBad(listener.inputs) ELSE 0
          l1     == IF listener.hasInputs /\ badIn = 0
                    THEN [listener EXCEPT !.inputs = Resolve(@)] ELSE listener
          badOut == IF l1.hasOutputs THEN FirstBad(l1.outputs) ELSE 0
          l2     == IF l1.hasOutputs /\ badOut = 0
                    THEN [l1 EXCEPT !.outputs = Resolve(@)] ELSE l1
      IN  IF badIn # 0
          THEN [st EXCEPT !.err = AttributeError("wire", listener.inputs[badIn])]
          ELSE IF badOut # 0
          THEN [st EXCEPT !.ls[w][ei].specs[k] = l1,
                          !.err = AttributeError("wire", l1.outputs[badOut])]
          ELSE WireListeners(
                 [st EXCEPT !.ls[w][ei].specs[k] = l2,
                            !.tr = Append(@, ListenerCall(st.fn, l2, w,
                                                          st.ls[w][ei].event, k)),
                            !.fn = ThenTrigger(Len(st.tr) + 1)],
                 w, ei, k + 1)

\* lines 59-69: the entries of inst.listeners from entry ei on
RECURSIVE WireEvents(_, _, _)
WireEvents(st, w, ei) ==
    IF ei > Len(st.ls[w]) THEN st
    ELSE IF ~HasGrObject(WRef(w))
    THEN [st EXCEPT !.err = AttributeError("wire", WRef(w))]
    ELSE LET st1 == [st EXCEPT !.fn = FirstTrigger(gr_object[w], st.ls[w][ei].event, @)]
             st2 == WireListeners(st1, w, ei, 1)
         IN  IF st2.err # NoErr THEN st2 ELSE WireEvents(st2, w, ei + 1)

\* lines 58-69: the instances of self.wrapped_instances from index i on
RECURSIVE WireInstances(_, _, _)
WireInstances(st, insts, i) ==
    IF i > Len(insts) THEN st
    ELSE LET st2 == WireEvents(st, insts[i], 1)
         IN  IF st2.err # NoErr THEN st2 ELSE WireInstances(st2, insts, i + 1)

\* Block._init_listeners, called at line 33
InitListeners ==
    /\ pc = "wire"
    /\ LET st == WireInstances([ls |-> listeners, tr |-> trace, err |-> NoErr,
                                fn |-> NoTrigger],
                               wrapped_instances[self], 1)
       IN  /\ listeners' = st.ls
           /\ trace' = st.tr
           /\ err' = st.err
           /\ pc' = IF st.err = NoErr THEN "load" ELSE "failed"
    /\ UNCHANGED <<source, gr_object, nextWidget, assigned, declared, self,
                   wrapped_instances, dyn_reloading_instances, calledInLayout,
                   layoutBase, loaded, starts>>

\* lines 34-35: block.load(self._load, outputs=[o.gr_object for o in ...])
LoadBind ==
    /\ pc = "load"
    /\ LET dyn  == dyn_reloading_instances[self]
           refs == [i \in 1..Len(dyn) |-> WRef(dyn[i])]
           bad  == FirstBad(refs)
       IN  IF dyn = <<>>
           THEN /\ pc' = "launch"
                /\ UNCHANGED <<trace, err>>
           ELSE IF bad # 0
           THEN /\ err' = AttributeError("load", refs[bad])
                /\ pc' = "failed"
                /\ UNCHANGED trace
           ELSE /\ trace' = Append(trace, LoadCall(Resolve(refs)))
                /\ pc' = "launch"
                /\ UNCHANGED err
    /\ UNCHANGED <<listeners, source, gr_object, nextWidget, assigned, declared, self,
                   wrapped_instances, dyn_reloading_instances, calledInLayout,
                   layoutBase, loaded, starts>>

\* mutant: launch is called even though wiring or load binding raised
Launch_onError ==
    /\ pc \in {"launch", "failed"}
    /\ trace' = Append(trace, LaunchCall)
    /\ pc' = "launched"
    /\ UNCHANGED <<listeners, source, gr_object, nextWidget, assigned, declared, self,
                   wrapped_instances, dyn_reloading_instances, err, calledInLayout,
                   layoutBase, loaded, starts>>

\* line 37: block.launch(**launch_kwargs), which blocks
Launch ==
    /\ pc = "launch"
    /\ trace' = Append(trace, LaunchCall)
    /\ pc' = "launched"
    /\ UNCHANGED <<listeners, source, gr_object, nextWidget, assigned, declared, self,
                   wrapped_instances, dyn_reloading_instances, err, calledInLayout,
                   layoutBase, loaded, starts>>

\* Block._load: what the handler returns for the current data sources
LoadOutputs(dyn) == [i \in 1..Len(dyn) |-> CallSource(source[dyn[i]])]

\* line 47: outputs if len(outputs) > 1 else outputs[0]
LoadShape(outputs) == IF Len(outputs) > 1 THEN "sequence" ELSE "single"

\* the framework issuing its load event: it calls the registered handler
FrameworkLoad ==
    /\ pc = "launched"
    /\ \E i \in 1..Len(trace) : trace[i].kind = "load"
    /\ ~loaded.fired
    /\ LET dyn == dyn_reloading_instances[self]
       IN  loaded' = [fired |-> TRUE,
                      calls |-> [i \in 1..Len(dyn) |-> source[dyn[i]]],
                      shape |-> LoadShape(LoadOutputs(dyn)),
                      vals  |-> LoadOutputs(dyn)]
    /\ UNCHANGED <<listeners, source, gr_object, nextWidget, assigned, declared, pc,
                   self, wrapped_instances, dyn_reloading_instances, trace, err,
                   calledInLayout, layoutBase, starts>>

\* launch() returning (server shut down), or the exception reaching the caller:
\* start()'s frame, with the local gr.Blocks object, is gone
StartEnd ==
    /\ pc \in {"launched", "failed"}
    /\ pc' = "idle"
    /\ self' = "none"
    /\ trace' = <<>>
    /\ err' = NoErr
    /\ calledInLayout' = {}
    /\ layoutBase' = nextWidget
    /\ loaded' = NotLoaded
    /\ UNCHANGED <<listeners, source, gr_object, nextWidget, assigned, declared,
                   wrapped_instances, dyn_reloading_instances, starts>>

\* ---------------------------------------------------------------- specification
Init ==
    /\ listeners = [w \in Wrappers |-> <<>>]
    /\ source = [w \in Wrappers |-> "None"]
    /\ gr_object = [w \in Wrappers |-> 0]
    /\ nextWidget = 1
    /\ assigned = [w \in Wrappers |-> 0]
    /\ declared = <<>>
    /\ pc = "idle"
    /\ self = "none"
    /\ wrapped_instances = [b \in Blocks |-> <<>>]
    /\ dyn_reloading_instances = [b \in Blocks |-> <<>>]
    /\ trace = <<>>
    /\ err = NoErr
    /\ calledInLayout = {}
    /\ layoutBase = 1
    /\ loaded = NotLoaded
    /\ starts = 0

Next ==
    \/ \E c \in BindChoices : Bind(c.w, c.event, c.kwargs)
    \/ \E w \in Wrappers : Source(w, SourceFn(w))
    \/ \E w \in Wrappers : WrapperCall(w)
    \/ \E b \in Blocks : StartBegin(b)
    \/ \E w \in Wrappers : LayoutCall(w)
    \/ LayoutReturn
    \/ LayoutRaise
    \/ InitListeners
    \/ LoadBind
    \/ Launch
    \/ FrameworkLoad
    \/ StartEnd

Spec == Init /\ [][Next]_vars

\* ---------------------------------------------------------------- vocabulary
Active == pc # "idle"

\* the kwargs bound for event e of Wrapper w, in call order
DeclaredList(w, e) ==
    LET ds == SelectSeq(declared, LAMBDA d : d.w = w /\ d.event = e)
    IN  [i \in 1..Len(ds) |-> ds[i].kwargs]

AllEvents == UNION {EVENTS(w) : w \in Wrappers}

ListenerIdx == {i \in 1..Len(trace) : trace[i].kind = "listener"}
LoadIdx     == {i \in 1..Len(trace) : trace[i].kind = "load"}
LaunchIdx   == {i \in 1..Len(trace) : trace[i].kind = "launch"}

\* the running start() is past its call of layout()
LayoutReturned ==
    \/ pc \in {"wire", "load", "launch", "launched"}
    \/ pc = "failed" /\ err.at # "layout"

Rank(kind) == IF kind = "listener" THEN 1 ELSE IF kind = "load" THEN 2 ELSE 3

\* registrations a complete wiring of the running Block makes
ExpectedRegs ==
    Cardinality({ij \in (1..Len(wrapped_instances[self])) \X (1..Len(declared)) :
                    declared[ij[2]].w = wrapped_instances[self][ij[1]]})

Discovered == {wrapped_instances[self][i] : i \in 1..Len(wrapped_instances[self])}

RefIds(kw) == {kw.inputs[i].id : i \in 1..Len(kw.inputs)}
                 \cup {kw.outputs[i].id : i \in 1..Len(kw.outputs)}

\* w owns a listener, has a data source, or is an input or output of a listener
Needed(w) ==
    \/ w \in Discovered /\ (listeners[w] # <<>> \/ source[w] # "None")
    \/ \E j \in 1..Len(declared) :
          declared[j].w \in Discovered /\ w \in RefIds(declared[j].kwargs)

\* a sequence without its repeated elements, first occurrences kept in order
RECURSIVE Dedup(_)
Dedup(q) ==
    IF q = <<>> THEN <<>>
    ELSE LET front == Dedup(SubSeq(q, 1, Len(q) - 1))
             last  == q[Len(q)]
         IN  IF \E i \in 1..Len(front) : front[i] = last THEN front
             ELSE Append(front, last)

\* ---------------------------------------------------------------- C1
\* C1: within one start() the framework calls come in the order listener
\* registrations, then at most one load registration, then at most one launch;
\* nothing is registered while layout() has not returned; the load handler and
\* the launch come only after every listener is wired, and the launch only when
\* no step raised.
StartOrder ==
    Active =>
      /\ pc \in {"layout", "wire"} => trace = <<>>
      /\ \A i, j \in 1..Len(trace) :
            i < j => /\ Rank(trace[i].kind) <= Rank(trace[j].kind)
                     /\ trace[i].kind # "listener" => trace[i].kind # trace[j].kind
      /\ LoadIdx \cup LaunchIdx # {} => Cardinality(ListenerIdx) = ExpectedRegs
      /\ LoadIdx # {} => pc \in {"launch", "launched"}
      /\ LaunchIdx # {} =>
            /\ pc = "launched"
            /\ err = NoErr
            /\ dyn_reloading_instances[self] # <<>> => LoadIdx # {}
      /\ pc = "launched" => Cardinality(LaunchIdx) = 1

StartOrderWitness ==
    /\ pc = "launched"
    /\ Cardinality(ListenerIdx) >= 2
    /\ LoadIdx # {}

\* ---------------------------------------------------------------- C2
\* C2: the first spec of every (Wrapper, event) list is registered on the raw
\* trigger of that Wrapper's widget for that event, and spec k >= 2 on the .then
\* of the handle returned by registering spec k-1 of the same list, which is the
\* call just before it; the k-th registration carries the k-th declared handler.
ChainStructure ==
    Active =>
      \A i \in ListenerIdx :
        LET t == trace[i]
        IN  /\ t.k \in 1..Len(DeclaredList(t.w, t.event))
            /\ t.kwargs.fn = DeclaredList(t.w, t.event)[t.k].fn
            /\ t.k = 1 => t.on = RawTrigger(gr_object[t.w], t.event)
            /\ t.k > 1 =>
                 /\ i > 1
                 /\ t.on = ThenTrigger(i - 1)
                 /\ trace[i - 1].kind = "listener"
                 /\ trace[i - 1].w = t.w
                 /\ trace[i - 1].event = t.event
                 /\ trace[i - 1].k = t.k - 1

ChainWitness ==
    /\ Active
    /\ \E i, j \in ListenerIdx :
          /\ trace[i].k = 2
          /\ trace[j].k = 1
          /\ i < j

\* ---------------------------------------------------------------- C3
\* C3: the load handler calls the data source of every source-bearing Wrapper
\* once, in discovery order, returns a single value exactly when there is one
\* such Wrapper, and the registered outputs are those Wrappers' widgets in order.
LoadHandlerOncePerWrapper ==
    loaded.fired =>
      LET sw == Dedup(dyn_reloading_instances[self])
      IN  /\ loaded.calls = [i \in 1..Len(sw) |-> source[sw[i]]]
          /\ loaded.vals = [i \in 1..Len(sw) |-> CallSource(source[sw[i]])]
          /\ loaded.shape = IF Len(sw) = 1 THEN "single" ELSE "sequence"
          /\ \A i \in LoadIdx :
                trace[i].outputs = [k \in 1..Len(sw) |-> GRef(gr_object[sw[k]])]

\* ---------------------------------------------------------------- C4
\* C4: a binder call appends its kwargs to the list of its event on its Wrapper
\* and changes no other list, no data source and no widget; before any wiring
\* every list holds the records bound for it, in call order.
BinderAppends ==
    /\ [](starts = 0 =>
            \A w \in Wrappers, e \in AllEvents :
               ListOf(listeners[w], e) = DeclaredList(w, e))
    /\ [][Len(declared') > Len(declared) =>
            LET d == declared'[Len(declared')]
            IN  /\ d.event \in EVENTS(d.w)
                /\ ListOf(listeners'[d.w], d.event)
                      = Append(ListOf(listeners[d.w], d.event), d.kwargs)
                /\ \A w \in Wrappers, e \in AllEvents :
                      (w # d.w \/ e # d.event) =>
                         ListOf(listeners'[w], e) = ListOf(listeners[w], e)
                /\ source' = source
                /\ gr_object' = gr_object]_vars

BinderWitness ==
    /\ Len(declared) = 2
    /\ Len(ListOf(listeners[1], "click")) = 2
    /\ listeners[1][1].specs[1] # listeners[1][1].specs[2]

\* ---------------------------------------------------------------- C5
\* the registration made for a spec carries the declared handler and options,
\* and in every input/output position the widget its Wrapper holds
CarriesDeclared(t, d) ==
    /\ t.kwargs.fn = d.fn
    /\ t.kwargs.show_progress = d.show_progress
    /\ t.kwargs.hasInputs = d.hasInputs
    /\ t.kwargs.hasOutputs = d.hasOutputs
    /\ t.kwargs.inputs = [p \in 1..Len(d.inputs) |-> GRef(gr_object[d.inputs[p].id])]
    /\ t.kwargs.outputs = [p \in 1..Len(d.outputs) |-> GRef(gr_object[d.outputs[p].id])]

\* C5 as claimed: every widget a registration carries was instantiated by the
\* running start()'s layout().
ResolvedInThisLayout ==
    Active =>
      \A i \in ListenerIdx :
        LET t == trace[i]
            d == DeclaredList(t.w, t.event)[t.k]
        IN  /\ CarriesDeclared(t, d)
            /\ \A w \in RefIds(d) : w \in calledInLayout /\ gr_object[w] >= layoutBase

\* C5 as amended: every registration carries the declared handler and options
\* and, position by position, the widget the declared Wrapper holds when wiring
\* runs; that is the widget of this start()'s layout() whenever layout() called
\* the Wrapper.
ResolvedToCurrentWidget ==
    Active =>
      \A i \in ListenerIdx :
        LET t == trace[i]
            d == DeclaredList(t.w, t.event)[t.k]
        IN  /\ CarriesDeclared(t, d)
            /\ \A w \in RefIds(d) :
                  /\ gr_object[w] # 0
                  /\ w \in calledInLayout => gr_object[w] >= layoutBase

ResolvedWitness ==
    /\ Active
    /\ \E i \in ListenerIdx :
          /\ Len(trace[i].kwargs.outputs) = 2
          /\ trace[i].kwargs.outputs[1] # trace[i].kwargs.outputs[2]
          /\ Len(trace[i].kwargs.inputs) = 1

\* ---------------------------------------------------------------- C6
\* C6: start() on a Block whose class does not override layout() gets no further
\* than layout(), ends with NotImplementedError, and has made no framework call.
NoLayoutFails ==
    (Active /\ ~OverridesLayout(self)) =>
      /\ pc \in {"layout", "failed"}
      /\ trace = <<>>
      /\ pc = "layout" => ENABLED LayoutRaise
      /\ pc = "failed" => err = NotImplementedError

NoLayoutWitness ==
    /\ pc = "failed"
    /\ ~OverridesLayout(self)
    /\ declared # <<>>
    /\ source[2] # "None"

\* ---------------------------------------------------------------- C7
\* C7 as claimed: once layout() has returned without calling a needed Wrapper,
\* start() cannot get past wiring and load binding, and fails there.
UncalledNeededFails ==
    LayoutReturned =>
      \A w \in Wrappers :
        (Needed(w) /\ w \notin calledInLayout) =>
           /\ pc \in {"wire", "load", "failed"}
           /\ LaunchIdx = {}
           /\ pc = "failed" => err.type = "AttributeError" /\ err.at \in {"wire", "load"}

\* C7 as amended: the same for a needed Wrapper that holds no widget (never
\* called, in layout() or anywhere else); and a Wrapper whose missing widget
\* makes start() fail is a needed one.
UninstantiatedNeededFails ==
    LayoutReturned =>
      /\ \A w \in Wrappers :
           (Needed(w) /\ gr_object[w] = 0) =>
              /\ pc \in {"wire", "load", "failed"}
              /\ LaunchIdx = {}
              /\ pc = "failed" =>
                    err.type = "AttributeError" /\ err.at \in {"wire", "load"}
      /\ (pc = "failed" /\ err.obj.kind = "wrapper") =>
              Needed(err.obj.id) /\ gr_object[err.obj.id] = 0

UninstantiatedWitness ==
    /\ pc = "failed"
    /\ err.type = "AttributeError"
    /\ err.obj.kind = "wrapper"
    /\ calledInLayout # {}

\* ---------------------------------------------------------------- C8
\* C8 as claimed: no Wrapper's widget is ever assigned a second time.
AssignedOnce ==
    \A w \in Wrappers :
       /\ assigned[w] <= 1
       /\ assigned[w] = 0 => gr_object[w] = 0

\* C8 as amended: a Wrapper holds no widget until it is first called; every
\* call assigns a fresh widget, replacing the one held; and every widget that
\* wiring dereferenced is the one of its Wrapper's latest call.
AssignedByEveryCall ==
    /\ [](/\ \A w \in Wrappers :
                /\ assigned[w] = 0 <=> gr_object[w] = 0
                /\ gr_object[w] < nextWidget
          /\ \A w1, w2 \in Wrappers :
                (w1 # w2 /\ gr_object[w1] # 0) => gr_object[w1] # gr_object[w2]
          /\ Active =>
                \A i \in ListenerIdx :
                   trace[i].on.via = "raw" => trace[i].on.widget = gr_object[trace[i].w])
    /\ [][\A w \in Wrappers :
             assigned'[w] # assigned[w] =>
                /\ assigned'[w] = assigned[w] + 1
                /\ gr_object'[w] = nextWidget
                /\ nextWidget' = nextWidget + 1
                /\ \A o \in Wrappers \ {w} : gr_object'[o] = gr_object[o]]_vars

ReassignedWitness ==
    \E w \in Wrappers : assigned[w] = 2 /\ gr_object[w] = 2

\* ---------------------------------------------------------------- C9
\* C9: when layout() has called every discovered Wrapper, wiring does not fail,
\* every declared spec of a discovered Wrapper is registered exactly once, and
\* every widget among the load outputs appears there once.
RegisteredExactlyOnce ==
    (LayoutReturned /\ pc # "wire" /\ Discovered \subseteq calledInLayout) =>
      /\ pc # "failed"
      /\ \A w \in Discovered, e \in AllEvents :
            \A k \in 1..Len(DeclaredList(w, e)) :
               Cardinality({i \in ListenerIdx :
                  trace[i].w = w /\ trace[i].event = e /\ trace[i].k = k}) = 1
      /\ \A i \in LoadIdx :
            \A p, q \in 1..Len(trace[i].outputs) :
               trace[i].outputs[p] = trace[i].outputs[q] => p = q

\* ---------------------------------------------------------------- C10
\* C10: wiring leaves the recorded specs as declared: every list still holds
\* the kwargs that were bound, with their Wrapper references.
ListenersAsDeclared ==
    \A w \in Wrappers, e \in AllEvents :
       ListOf(listeners[w], e) = DeclaredList(w, e)
====
